---- MODULE Spec2Model ----
(***************************************************************************)
(* Reservation engine of the hotel backend: the booking routes             *)
(* (POST /api/bookings, PUT /api/bookings/:id/status) over the Prisma      *)
(* store, as the code in src/src/routes/bookingRoutes.ts runs them.        *)
(*                                                                         *)
(* The document side is the EncryptionService and the StorageService of    *)
(* src/src/utils/encryption.ts with the multer middleware in front of      *)
(* them, and the development seed script that rebuilds the tables.         *)
(*                                                                         *)
(* Every handler is async: each `await prisma...` is a point where other   *)
(* requests run.  A handler is therefore one action per store round trip,  *)
(* and the position of each client's request is part of the state.         *)
(* Instants are JavaScript Date values (milliseconds).  The free-form      *)
(* members / documents payload of a booking takes part in no decision and  *)
(* is not carried.                                                         *)
(***************************************************************************)
EXTENDS Integers, Sequences, FiniteSets, TLC

(* ---------------------------------------------------------------- bounds *)
\* Request instants are drawn from the ticks 0..MaxTick where requests are
\* served one at a time, and from 0..MaxRaceTick where they overlap in time.
MaxTick == 3
MaxRaceTick == 1
\* Rows the booking table may hold in an explored run.
MaxBookings == 2
\* Longest document, in bytes, that is encrypted or uploaded.
MaxDataLen == 2
\* Objects the bucket may hold in an explored run.
MaxObjects == 2

(* ------------------------------------------------------------- the store *)
VARIABLES
  hotels,    \* Hotel rows: id -> [ownerId, managers]
  rooms,     \* Room rows: id -> [hotelId, price, status]
  bookings,  \* Booking rows in insertion order; a row's id is its index
  req,       \* per client: the request it has in flight and where it stands
  resp,      \* the HTTP response sent by the step just taken, or NoResp
  objects,   \* the R2 bucket: object key -> [Body, ContentType]
  sealed,    \* the last EncryptionService.encrypt call: its input and result
  call,      \* the service call of the step just taken: what it was given
  ret        \* what the service call of the step just taken returned or threw

vars == <<hotels, rooms, bookings, req, resp, objects, sealed, call, ret>>

\* The document side, which no booking route touches, and the booking side,
\* which no document service touches.
vault == <<objects, sealed, call, ret>>
store == <<hotels, rooms, bookings, req, resp>>

Users == {"u1", "u2"}
\* A client whose request carries no session user.
Anon == "anon"
\* A second connection of user u1: one user may have two requests in flight.
Second == "u1+"
Clients == Users \cup {Anon, Second}

\* The session user of a client (req.user.id), Anon where there is none.
UserOf(c) == IF c = Second THEN "u1" ELSE c

HotelIds == {"h1", "h2"}
\* "r0" is a well-formed room id that names no Room row.
RoomIds == {"r1", "r2", "r0"}

BookingStatus ==
  {"PENDING", "CONFIRMED", "CHECKED_IN", "CHECKED_OUT", "CANCELLED", "REJECTED"}
\* A `status` in the request body that is no member of the enum.
BogusStatus == "BOGUS"
StatusInputs == BookingStatus \cup {BogusStatus}

DayMs == 1000 * 60 * 60 * 24
\* Request instants lie half a day apart, so that stays of whole and of
\* fractional days both occur.
TickMs == DayMs \div 2
DateOf(tick) == tick * TickMs
Ticks == 0..MaxTick
RaceTicks == 0..MaxRaceTick

\* (A quotient rounded down where the code rounds up.)
MathFloorDiv(n, d) == n \div d

\* Math.ceil(n / d) for d > 0 (\div rounds toward minus infinity).
MathCeilDiv(n, d) == -((-n) \div d)

(* ----------------------------------------------------------- responses *)
NoResp == [code |-> 0, error |-> ""]
Reply(code, error) == [code |-> code, error |-> error]

ErrUnauthorized == "Unauthorized"
ErrNotAvailable == "Room not available for selected dates"
ErrRoomNotFound == "Room not found"
ErrCreateFailed == "Failed to create booking"
ErrBookingNotFound == "Booking not found"
ErrNotAuthorized == "Not authorized"
ErrUpdateFailed == "Failed to update booking status"
ErrCreateHotelFailed == "Failed to create hotel"
ErrCreateRoomFailed == "Failed to create room"
ErrUpdateRoomFailed == "Failed to update room"

(* ------------------------------------------------------ request records *)
Idle ==
  [pc |-> "idle", roomId |-> "r0", hotelId |-> "h1", checkIn |-> 0,
   checkOut |-> 0, snapshot |-> 0, totalAmount |-> 0, id |-> 0,
   status |-> "PENDING", read |-> "", price |-> 0, type |-> ""]

(* ---------------------------------------------------------- requireAuth *)
\* (A middleware that answers 401 and lets the room-creation handler run.)
RequireAuthRejectAndRun(c) ==
  /\ UserOf(c) \notin Users
  /\ req[c].pc = "idle"
  /\ resp' = Reply(401, ErrUnauthorized)
  /\ rooms' = [r \in DOMAIN rooms \cup {"r3"} |->
                 IF r \in DOMAIN rooms THEN rooms[r]
                 ELSE [hotelId |-> "h1", price |-> 150, status |-> "AVAILABLE",
                       type |-> "DELUXE"]]
  /\ UNCHANGED <<hotels, bookings, req>>

\* The middleware in front of every mutating route: without a session user
\* it answers 401 and the handler never runs.
RequireAuthReject(c) ==
  /\ UserOf(c) \notin Users
  /\ req[c].pc = "idle"
  /\ resp' = Reply(401, ErrUnauthorized)
  /\ UNCHANGED <<hotels, rooms, bookings, req>>

(* -------------------------------------------------------- POST /bookings *)
\* (A `where` that leaves out the room.)
ExistingBookingWhereAnyRoom(b, roomId, checkIn, checkOut) ==
  /\ b.status \in {"CONFIRMED", "PENDING"}
  /\ \/ (b.checkIn <= checkIn /\ b.checkOut >= checkIn)
     \/ (b.checkIn <= checkOut /\ b.checkOut >= checkOut)

\* The `where` of prisma.booking.findFirst: does row b block the request?
ExistingBookingWhere(b, roomId, checkIn, checkOut) ==
  /\ b.roomId = roomId
  /\ b.status \in {"CONFIRMED", "PENDING"}
  /\ \/ (b.checkIn <= checkIn /\ b.checkOut >= checkIn)
     \/ (b.checkIn <= checkOut /\ b.checkOut >= checkOut)

FindFirstExisting(rows, roomId, checkIn, checkOut) ==
  \E i \in 1..Len(rows) : ExistingBookingWhere(rows[i], roomId, checkIn, checkOut)

\* const days = Math.ceil((checkOut - checkIn) / (1000*60*60*24))
Days(checkIn, checkOut) == MathCeilDiv(checkOut - checkIn, DayMs)

\* const totalAmount = room.price * days
TotalAmount(price, checkIn, checkOut) == price * Days(checkIn, checkOut)

\* createBookingSchema.parse and the findFirst round trip, for session
\* user c.  body.valid = FALSE stands for a body the schema rejects: parse
\* throws and the catch block answers.  snapshot records how many rows the
\* table held when findFirst read it.
CreateBookingFindFirst(c, body) ==
  /\ UserOf(c) \in Users
  /\ req[c].pc = "idle"
  /\ UNCHANGED <<hotels, rooms, bookings>>
  /\ IF ~body.valid
       THEN /\ resp' = Reply(400, ErrCreateFailed)
            /\ UNCHANGED req
       ELSE LET checkIn == DateOf(body.checkIn)
                checkOut == DateOf(body.checkOut)
            IN IF FindFirstExisting(bookings, body.roomId, checkIn, checkOut)
                 THEN /\ resp' = Reply(400, ErrNotAvailable)
                      /\ UNCHANGED req
                 ELSE /\ Len(bookings)
                           + Cardinality({d \in Clients :
                                req[d].pc \in {"findRoom", "create"}})
                           < MaxBookings
                      /\ req' = [req EXCEPT ![c] =
                           [Idle EXCEPT !.pc = "findRoom",
                                        !.roomId = body.roomId,
                                        !.hotelId = body.hotelId,
                                        !.checkIn = checkIn,
                                        !.checkOut = checkOut,
                                        !.snapshot = Len(bookings)]]
                      /\ resp' = NoResp

\* (A room lookup that turns away a room that is not AVAILABLE.)
CreateBookingFindRoomAvailableOnly(c) ==
  /\ req[c].pc = "findRoom"
  /\ UNCHANGED <<hotels, rooms, bookings>>
  /\ IF \/ req[c].roomId \notin DOMAIN rooms
        \/ rooms[req[c].roomId].status # "AVAILABLE"
       THEN /\ resp' = Reply(404, ErrRoomNotFound)
            /\ req' = [req EXCEPT ![c] = Idle]
       ELSE /\ req' = [req EXCEPT ![c].pc = "create",
                                  ![c].totalAmount =
                                    TotalAmount(rooms[req[c].roomId].price,
                                                req[c].checkIn, req[c].checkOut)]
            /\ resp' = NoResp

\* prisma.room.findUnique, the 404 return, and the price computation.
CreateBookingFindRoom(c) ==
  /\ req[c].pc = "findRoom"
  /\ UNCHANGED <<hotels, rooms, bookings>>
  /\ IF req[c].roomId \notin DOMAIN rooms
       THEN /\ resp' = Reply(404, ErrRoomNotFound)
            /\ req' = [req EXCEPT ![c] = Idle]
       ELSE /\ req' = [req EXCEPT ![c].pc = "create",
                                  ![c].totalAmount =
                                    TotalAmount(rooms[req[c].roomId].price,
                                                req[c].checkIn, req[c].checkOut)]
            /\ resp' = NoResp

\* (A row written as already confirmed.)
NewBookingConfirmed(c) ==
  [roomId |-> req[c].roomId, hotelId |-> req[c].hotelId,
   userId |-> UserOf(c),
   checkIn |-> req[c].checkIn, checkOut |-> req[c].checkOut,
   status |-> "CONFIRMED", paymentStatus |-> "PENDING",
   totalAmount |-> req[c].totalAmount]

\* The row prisma.booking.create writes for client c's request.
NewBooking(c) ==
  [roomId |-> req[c].roomId, hotelId |-> req[c].hotelId,
   userId |-> UserOf(c),
   checkIn |-> req[c].checkIn, checkOut |-> req[c].checkOut,
   status |-> "PENDING", paymentStatus |-> "PENDING",
   totalAmount |-> req[c].totalAmount]

\* prisma.booking.create and the 201 response.
CreateBookingCreate(c) ==
  /\ req[c].pc = "create"
  /\ bookings' = Append(bookings, NewBooking(c))
  /\ req' = [req EXCEPT ![c] = Idle]
  /\ resp' = Reply(201, "")
  /\ UNCHANGED <<hotels, rooms>>

(* --------------------------------------------- PUT /bookings/:id/status *)
\* (A lookup that lets any session user through.)
UpdateStatusFindAnyUser(c, id, status) ==
  /\ UserOf(c) \in Users
  /\ req[c].pc = "idle"
  /\ UNCHANGED <<hotels, rooms, bookings>>
  /\ IF id \notin 1..Len(bookings)
       THEN /\ resp' = Reply(404, ErrBookingNotFound)
            /\ UNCHANGED req
       ELSE /\ req' = [req EXCEPT ![c] =
                 [Idle EXCEPT !.pc = "update", !.id = id, !.status = status,
                              !.read = bookings[id].status]]
            /\ resp' = NoResp

\* (A lookup that answers a missing booking like a foreign one.)
UpdateStatusFindMissingIsForeign(c, id, status) ==
  /\ UserOf(c) \in Users
  /\ req[c].pc = "idle"
  /\ UNCHANGED <<hotels, rooms, bookings>>
  /\ IF id \notin 1..Len(bookings)
         \/ hotels[bookings[id].hotelId].ownerId # UserOf(c)
       THEN /\ resp' = Reply(403, ErrNotAuthorized)
            /\ UNCHANGED req
       ELSE /\ req' = [req EXCEPT ![c] =
                 [Idle EXCEPT !.pc = "update", !.id = id, !.status = status,
                              !.read = bookings[id].status]]
            /\ resp' = NoResp

\* prisma.booking.findUnique, the 404 and the 403 returns, for the session
\* user of client c.  read records the status the lookup saw.
UpdateStatusFind(c, id, status) ==
  /\ UserOf(c) \in Users
  /\ req[c].pc = "idle"
  /\ UNCHANGED <<hotels, rooms, bookings>>
  /\ IF id \notin 1..Len(bookings)
       THEN /\ resp' = Reply(404, ErrBookingNotFound)
            /\ UNCHANGED req
       ELSE IF hotels[bookings[id].hotelId].ownerId # UserOf(c)
         THEN /\ resp' = Reply(403, ErrNotAuthorized)
              /\ UNCHANGED req
         ELSE /\ req' = [req EXCEPT ![c] =
                   [Idle EXCEPT !.pc = "update", !.id = id, !.status = status,
                              !.read = bookings[id].status]]
              /\ resp' = NoResp

\* (An update that settles the payment when it confirms.)
UpdateStatusWritePaid(c) ==
  /\ req[c].pc = "update"
  /\ UNCHANGED <<hotels, rooms>>
  /\ req' = [req EXCEPT ![c] = Idle]
  /\ IF req[c].status \notin BookingStatus
       THEN /\ resp' = Reply(500, ErrUpdateFailed)
            /\ UNCHANGED bookings
       ELSE /\ bookings' =
                 [bookings EXCEPT ![req[c].id].status = req[c].status,
                                  ![req[c].id].paymentStatus =
                                     IF req[c].status = "CONFIRMED"
                                       THEN "PAID" ELSE @]
            /\ resp' = Reply(200, "")

\* (An update that removes the row it cancels.)
UpdateStatusWriteDropsCancelled(c) ==
  /\ req[c].pc = "update"
  /\ UNCHANGED <<hotels, rooms>>
  /\ req' = [req EXCEPT ![c] = Idle]
  /\ IF req[c].status \notin BookingStatus
       THEN /\ resp' = Reply(500, ErrUpdateFailed)
            /\ UNCHANGED bookings
       ELSE /\ bookings' =
                 IF req[c].status = "CANCELLED"
                   THEN SubSeq(bookings, 1, req[c].id - 1)
                          \o SubSeq(bookings, req[c].id + 1, Len(bookings))
                   ELSE [bookings EXCEPT ![req[c].id].status = req[c].status]
            /\ resp' = Reply(200, "")

\* prisma.booking.update({data: {status}}) and the 200 response; a status
\* outside the enum makes the client throw, which the catch answers with 500.
UpdateStatusWrite(c) ==
  /\ req[c].pc = "update"
  /\ UNCHANGED <<hotels, rooms>>
  /\ req' = [req EXCEPT ![c] = Idle]
  /\ IF req[c].status \notin BookingStatus
       THEN /\ resp' = Reply(500, ErrUpdateFailed)
            /\ UNCHANGED bookings
       ELSE /\ bookings' = [bookings EXCEPT ![req[c].id].status = req[c].status]
            /\ resp' = Reply(200, "")

(* ----------------------------------------------------------- POST /hotels *)
\* Ids the store gives to rows created in explored runs.
FreshHotelIds == {"h3"}
FreshRoomIds == {"r3"}

\* createHotelSchema.parse, prisma.hotel.create with the session user as
\* owner, and the 201; a body the schema rejects, or a create that rejects
\* (stored = FALSE), is answered by the catch block.
CreateHotel(c, valid, stored) ==
  /\ UserOf(c) \in Users
  /\ req[c].pc = "idle"
  /\ UNCHANGED <<rooms, bookings, req>>
  /\ IF ~valid \/ ~stored
       THEN /\ resp' = Reply(400, ErrCreateHotelFailed)
            /\ UNCHANGED hotels
       ELSE /\ \E id \in FreshHotelIds : id \notin DOMAIN hotels
            /\ LET id == CHOOSE h \in FreshHotelIds : h \notin DOMAIN hotels
               IN hotels' = [h \in DOMAIN hotels \cup {id} |->
                               IF h = id
                                 THEN [ownerId |-> UserOf(c), managers |-> {}]
                                 ELSE hotels[h]]
            /\ resp' = Reply(201, "")

(* ------------------------------------------------------------ POST /rooms *)
\* createRoomSchema.parse, prisma.room.create with hotel: {connect: {id:
\* body.hotelId}}, and the 201.  The create rejects when the hotel does not
\* exist (or stored = FALSE); the catch block answers 400.
CreateRoom(c, body, stored) ==
  /\ UserOf(c) \in Users
  /\ req[c].pc = "idle"
  /\ UNCHANGED <<hotels, bookings, req>>
  /\ IF ~body.valid \/ body.hotelId \notin DOMAIN hotels \/ ~stored
       THEN /\ resp' = Reply(400, ErrCreateRoomFailed)
            /\ UNCHANGED rooms
       ELSE /\ \E id \in FreshRoomIds : id \notin DOMAIN rooms
            /\ LET id == CHOOSE r \in FreshRoomIds : r \notin DOMAIN rooms
               IN rooms' = [r \in DOMAIN rooms \cup {id} |->
                              IF r = id
                                THEN [hotelId |-> body.hotelId,
                                      price |-> body.price,
                                      status |-> "AVAILABLE",
                                      type |-> body.type]
                                ELSE rooms[r]]
            /\ resp' = Reply(201, "")

(* --------------------------------------------------------- PUT /rooms/:id *)
\* (A room lookup that lets any session user through.)
UpdateRoomFindAnyUser(c, id, data) ==
  /\ UserOf(c) \in Users
  /\ req[c].pc = "idle"
  /\ UNCHANGED <<hotels, rooms, bookings>>
  /\ IF ~data.valid
       THEN /\ resp' = Reply(500, ErrUpdateRoomFailed)
            /\ UNCHANGED req
     ELSE IF id \notin DOMAIN rooms
       THEN /\ resp' = Reply(403, ErrNotAuthorized)
            /\ UNCHANGED req
       ELSE /\ req' = [req EXCEPT ![c] =
                 [Idle EXCEPT !.pc = "updateRoom", !.roomId = id,
                              !.price = data.price, !.type = data.type]]
            /\ resp' = NoResp

\* updateRoomSchema.parse, prisma.room.findUnique with its hotel, and the
\* 403 for a missing room or one of another owner's hotel.  In data, price 0
\* and type "" stand for a field the body leaves out.
UpdateRoomFind(c, id, data) ==
  /\ UserOf(c) \in Users
  /\ req[c].pc = "idle"
  /\ UNCHANGED <<hotels, rooms, bookings>>
  /\ IF ~data.valid
       THEN /\ resp' = Reply(500, ErrUpdateRoomFailed)
            /\ UNCHANGED req
     ELSE IF \/ id \notin DOMAIN rooms
             \/ hotels[rooms[id].hotelId].ownerId # UserOf(c)
       THEN /\ resp' = Reply(403, ErrNotAuthorized)
            /\ UNCHANGED req
       ELSE /\ req' = [req EXCEPT ![c] =
                 [Idle EXCEPT !.pc = "updateRoom", !.roomId = id,
                              !.price = data.price, !.type = data.type]]
            /\ resp' = NoResp

\* prisma.room.update with the fields the body names, and the 200; an update
\* that rejects (stored = FALSE) is answered 500 by the catch block.
UpdateRoomWrite(c, stored) ==
  /\ req[c].pc = "updateRoom"
  /\ UNCHANGED <<hotels, bookings>>
  /\ req' = [req EXCEPT ![c] = Idle]
  /\ IF ~stored
       THEN /\ resp' = Reply(500, ErrUpdateRoomFailed)
            /\ UNCHANGED rooms
       ELSE /\ rooms' =
                 [rooms EXCEPT
                    ![req[c].roomId].price =
                       IF req[c].price # 0 THEN req[c].price ELSE @,
                    ![req[c].roomId].type =
                       IF req[c].type # "" THEN req[c].type ELSE @]
            /\ resp' = Reply(200, "")

(* ------------------------------------------------------- store failure *)
\* (A failed create that leaves its row behind.)
StoreFailureLeavesRow(c) ==
  /\ req[c].pc \in {"findRoom", "create", "update"}
  /\ resp' = IF req[c].pc = "update"
               THEN Reply(500, ErrUpdateFailed)
               ELSE Reply(400, ErrCreateFailed)
  /\ req' = [req EXCEPT ![c] = Idle]
  /\ bookings' = IF req[c].pc = "create"
                   THEN Append(bookings, NewBooking(c))
                   ELSE bookings
  /\ UNCHANGED <<hotels, rooms>>

\* The pending prisma call of an in-flight request rejects (connection
\* lost, timeout, a connect target that is gone): the handler's catch
\* block answers and nothing is written.
StoreFailure(c) ==
  /\ req[c].pc \in {"findRoom", "create", "update"}
  /\ resp' = IF req[c].pc = "update"
               THEN Reply(500, ErrUpdateFailed)
               ELSE Reply(400, ErrCreateFailed)
  /\ req' = [req EXCEPT ![c] = Idle]
  /\ UNCHANGED <<hotels, rooms, bookings>>

(* ------------------------------------------------------------ seed script *)
\* The hotels and rooms the seed script creates: both hotels belong to the
\* seeded owner and have no managers; room 101 and room 201.
SeedHotels == [h \in HotelIds |-> [ownerId |-> "u1", managers |-> {}]]

SeedRooms ==
  [r \in {"r1", "r2"} |->
     IF r = "r1"
       THEN [hotelId |-> "h1", price |-> 100, status |-> "AVAILABLE",
             type |-> "STANDARD"]
       ELSE [hotelId |-> "h2", price |-> 500, status |-> "AVAILABLE",
             type |-> "STANDARD"]]

\* A run of the seed script while no request is in flight: deleteMany on
\* bookings, rooms, hotels and users, then the users, hotels and rooms anew.
\* Its booking.createMany names neither totalAmount nor members, which the
\* Booking model requires, so that call rejects and the table stays empty.
Seed ==
  /\ \A c \in Clients : req[c].pc = "idle"
  /\ bookings' = << >>
  /\ hotels' = SeedHotels
  /\ rooms' = SeedRooms
  /\ resp' = NoResp
  /\ UNCHANGED <<req, vault>>

(* ------------------------------------------------------------------ bytes *)
Byte == 0..255

\* The byte values documents, salts and ivs are made of in explored runs.
SampleBytes == {0, 255}

RECURSIVE BuffersUpTo(_)
\* All buffers over SampleBytes of length at most n.
BuffersUpTo(n) ==
  IF n = 0 THEN {<< >>}
  ELSE LET shorter == BuffersUpTo(n - 1)
       IN shorter \cup {Append(b, x) : b \in {y \in shorter : Len(y) = n - 1},
                                       x \in SampleBytes}

Payloads == BuffersUpTo(MaxDataLen)

\* crypto.randomBytes(n), in explored runs: n times the same sample byte.
RandomBytes(n) == {[i \in 1..n |-> x] : x \in SampleBytes}

\* buf.subarray(from, to) with Buffer's 0-based, clamped offsets.
Subarray(buf, from, to) ==
  SubSeq(buf, from + 1, IF to > Len(buf) THEN Len(buf) ELSE to)

RECURSIVE WeighUpTo(_, _)
WeighUpTo(buf, n) ==
  IF n = 0 THEN 0 ELSE n * (buf[n] + 1) + WeighUpTo(buf, n - 1)

\* A digest of a buffer that every change of one byte, and every change of
\* length by one, changes.
Weigh(buf) == WeighUpTo(buf, Len(buf))

\* The low `len` bytes of n, least significant first (n < 2^31).
ToBytes(n, len) ==
  [k \in 1..len |-> IF k > 4 THEN 0 ELSE (n \div (256 ^ (k - 1))) % 256]

(* ------------------------------------------------------ EncryptionService *)
saltLength == 64
ivLength == 16
tagLength == 16

\* The passwords crypto.randomBytes(32).toString('hex') yields in explored
\* runs, as numbers.
Passwords == {1, 2}

\* crypto.pbkdf2Sync(password, salt, ...): the key, as a number that
\* differs whenever the password or the salt does.
generateKey(password, salt) == password * 1000000 + Weigh(salt)

\* AES in counter mode: byte i of the key stream of (key, iv).
KeyStream(key, iv, i) == (key + Weigh(iv) + i) % 256

\* cipher.update(data) + cipher.final()
CipherUpdate(key, iv, data) ==
  [i \in 1..Len(data) |-> (data[i] + KeyStream(key, iv, i)) % 256]

\* decipher.update(encrypted)
DecipherUpdate(key, iv, encrypted) ==
  [i \in 1..Len(encrypted) |->
     (encrypted[i] + 256 - KeyStream(key, iv, i)) % 256]

\* cipher.getAuthTag(): the tag of (key, iv, ciphertext), tagLength bytes.
GetAuthTag(key, iv, encrypted) ==
  ToBytes(key + Weigh(iv) + Weigh(encrypted), tagLength)

\* encrypt(data), with the salt, iv and password it drew.
Encrypt(data, salt, iv, password) ==
  LET key == generateKey(password, salt)
      encrypted == CipherUpdate(key, iv, data)
      tag == GetAuthTag(key, iv, encrypted)
  IN [encryptedData |-> salt \o iv \o tag \o encrypted,
      encryptionKey |-> password]

\* The call of a step: the operation and a digest of its arguments.  For
\* decrypt: which part of the payload differs from what encrypt last
\* returned, and the password; for the storage calls: the file's declared
\* type and size, or the object key.
NoCall ==
  [op |-> "", part |-> "none", password |-> 0, mimetype |-> "", size |-> 0,
   key |-> 0]

\* What a call of operation op returned (a buffer, an object key) or threw.
NoRet == [op |-> "", ok |-> TRUE, error |-> "", data |-> << >>, key |-> 0]
Returns(op, data, key) ==
  [op |-> op, ok |-> TRUE, error |-> "", data |-> data, key |-> key]
Throws(op, error) ==
  [op |-> op, ok |-> FALSE, error |-> error, data |-> << >>, key |-> 0]

ErrInvalidIv == "Invalid initialization vector"
ErrInvalidTagLength == "Invalid authentication tag length"
ErrUnauthentic == "Unsupported state or unable to authenticate data"

\* (A decrypt that takes the salt to be half as long as encrypt wrote it.)
DecryptShortSalt(encryptedData, password) ==
  LET short == saltLength \div 2
      salt == Subarray(encryptedData, 0, short)
      iv == Subarray(encryptedData, short, short + ivLength)
      tag == Subarray(encryptedData, short + ivLength,
                      short + ivLength + tagLength)
      encrypted == Subarray(encryptedData, short + ivLength + tagLength,
                            Len(encryptedData))
      key == generateKey(password, salt)
  IN IF Len(iv) = 0 THEN Throws("decrypt", ErrInvalidIv)
     ELSE IF Len(tag) # tagLength THEN Throws("decrypt", ErrInvalidTagLength)
     ELSE IF tag # GetAuthTag(key, iv, encrypted) THEN Throws("decrypt", ErrUnauthentic)
     ELSE Returns("decrypt", DecipherUpdate(key, iv, encrypted), 0)

\* (A decrypt that never compares the tag.)
DecryptUnverified(encryptedData, password) ==
  LET salt == Subarray(encryptedData, 0, saltLength)
      iv == Subarray(encryptedData, saltLength, saltLength + ivLength)
      encrypted == Subarray(encryptedData, saltLength + ivLength + tagLength,
                            Len(encryptedData))
      key == generateKey(password, salt)
  IN IF Len(iv) = 0 THEN Throws("decrypt", ErrInvalidIv)
     ELSE Returns("decrypt", DecipherUpdate(key, iv, encrypted), 0)

\* decrypt(encryptedData, password): what it returns or throws.
\* createDecipheriv refuses an empty iv, setAuthTag a tag that is not
\* authTagLength long, and final() a tag that is not the tag of what was
\* read.
Decrypt(encryptedData, password) ==
  LET salt == Subarray(encryptedData, 0, saltLength)
      iv == Subarray(encryptedData, saltLength, saltLength + ivLength)
      tag == Subarray(encryptedData, saltLength + ivLength,
                      saltLength + ivLength + tagLength)
      encrypted == Subarray(encryptedData, saltLength + ivLength + tagLength,
                            Len(encryptedData))
      key == generateKey(password, salt)
  IN IF Len(iv) = 0 THEN Throws("decrypt", ErrInvalidIv)
     ELSE IF Len(tag) # tagLength THEN Throws("decrypt", ErrInvalidTagLength)
     ELSE IF tag # GetAuthTag(key, iv, encrypted) THEN Throws("decrypt", ErrUnauthentic)
     ELSE Returns("decrypt", DecipherUpdate(key, iv, encrypted), 0)

NoSealed ==
  [data |-> << >>, salt |-> << >>, iv |-> << >>, encryptedData |-> << >>,
   encryptionKey |-> 0]

\* A call of encrypt(data): the document, the salt and iv it drew, and what
\* it returned.
EncryptCall(data, salt, iv, password) ==
  /\ LET r == Encrypt(data, salt, iv, password)
     IN sealed' = [data |-> data, salt |-> salt, iv |-> iv,
                   encryptedData |-> r.encryptedData,
                   encryptionKey |-> r.encryptionKey]
  /\ call' = [NoCall EXCEPT !.op = "encrypt"]
  /\ ret' = NoRet
  /\ UNCHANGED <<objects, store>>

\* The part of `buf` in which it differs from the payload `from`.
PartChanged(buf, from) ==
  IF buf = from THEN "none"
  ELSE IF Len(buf) # Len(from) THEN "length"
  ELSE LET p == CHOOSE q \in 1..Len(buf) : buf[q] # from[q]
       IN IF p <= saltLength THEN "salt"
          ELSE IF p <= saltLength + ivLength THEN "iv"
          ELSE IF p <= saltLength + ivLength + tagLength THEN "tag"
          ELSE "ciphertext"

\* A call of decrypt(encryptedData, password).
DecryptCall(encryptedData, password) ==
  /\ sealed # NoSealed
  /\ call' = [NoCall EXCEPT !.op = "decrypt",
                            !.part = PartChanged(encryptedData,
                                                 sealed.encryptedData),
                            !.password = password]
  /\ ret' = Decrypt(encryptedData, password)
  /\ UNCHANGED <<objects, sealed, store>>

(* --------------------------------------------------------- StorageService *)
ALLOWED_FILE_TYPES ==
  {"image/jpeg", "image/png", "image/jpg", "application/pdf"}
MAX_FILE_SIZE == 5 * 1024 * 1024

ErrInvalidFileType == "Invalid file type"
ErrFileSize == "File size exceeds limit"
ErrFileTooLarge == "File too large"
ErrSendFailed == "send failed"

\* The key a new object gets: one the bucket does not hold.
GenerateObjectKey == CHOOSE k \in 1..(MaxObjects + 1) : k \notin DOMAIN objects

\* (An upload that does not look at the size.)
UploadFileAnySize(file, sent) ==
  /\ UNCHANGED <<sealed, store>>
  /\ call' = [NoCall EXCEPT !.op = "uploadFile", !.mimetype = file.mimetype,
                            !.size = file.size]
  /\ IF file.mimetype \notin ALLOWED_FILE_TYPES
       THEN ret' = Throws("uploadFile", ErrInvalidFileType) /\ UNCHANGED objects
     ELSE IF ~sent
       THEN ret' = Throws("uploadFile", ErrSendFailed) /\ UNCHANGED objects
     ELSE /\ Cardinality(DOMAIN objects) < MaxObjects
          /\ LET key == GenerateObjectKey
             IN /\ objects' =
                     [k \in DOMAIN objects \cup {key} |->
                        IF k = key
                          THEN [Body |-> file.buffer,
                                ContentType |-> file.mimetype]
                          ELSE objects[k]]
                /\ ret' = Returns("uploadFile", << >>, key)

\* uploadFile(file, prefix): the two checks, the PutObjectCommand with the
\* file's buffer as Body, and the key returned; sent = FALSE is a send that
\* rejects.
UploadFile(file, sent) ==
  /\ UNCHANGED <<sealed, store>>
  /\ call' = [NoCall EXCEPT !.op = "uploadFile", !.mimetype = file.mimetype,
                            !.size = file.size]
  /\ IF file.mimetype \notin ALLOWED_FILE_TYPES
       THEN ret' = Throws("uploadFile", ErrInvalidFileType) /\ UNCHANGED objects
     ELSE IF file.size > MAX_FILE_SIZE
       THEN ret' = Throws("uploadFile", ErrFileSize) /\ UNCHANGED objects
     ELSE IF ~sent
       THEN ret' = Throws("uploadFile", ErrSendFailed) /\ UNCHANGED objects
     ELSE /\ Cardinality(DOMAIN objects) < MaxObjects
          /\ LET key == GenerateObjectKey
             IN /\ objects' =
                     [k \in DOMAIN objects \cup {key} |->
                        IF k = key
                          THEN [Body |-> file.buffer,
                                ContentType |-> file.mimetype]
                          ELSE objects[k]]
                /\ ret' = Returns("uploadFile", << >>, key)

\* getSignedUrl(key): a URL for whatever key is named.
GetSignedUrl(key) ==
  /\ call' = [NoCall EXCEPT !.op = "getSignedUrl", !.key = key]
  /\ ret' = Returns("getSignedUrl", << >>, key)
  /\ UNCHANGED <<objects, sealed, store>>

\* deleteFile(key): the DeleteObjectCommand, which succeeds whether or not
\* the bucket holds the key.
DeleteFile(key) ==
  /\ call' = [NoCall EXCEPT !.op = "deleteFile", !.key = key]
  /\ objects' = [k \in DOMAIN objects \ {key} |-> objects[k]]
  /\ ret' = Returns("deleteFile", << >>, 0)
  /\ UNCHANGED <<sealed, store>>

(* -------------------------------------------------------- upload middleware *)
\* multer's upload.single: the fileFilter and the fileSize limit; a file
\* that passes is handed on in memory, nothing is stored.
UploadSingle(file) ==
  /\ call' = [NoCall EXCEPT !.op = "upload.single", !.mimetype = file.mimetype,
                            !.size = file.size]
  /\ ret' = IF file.mimetype \notin ALLOWED_FILE_TYPES
              THEN Throws("upload.single", ErrInvalidFileType)
            ELSE IF file.size > MAX_FILE_SIZE
              THEN Throws("upload.single", ErrFileTooLarge)
            ELSE Returns("upload.single", file.buffer, 0)
  /\ UNCHANGED <<objects, sealed, store>>

(* ------------------------------------------------------- specification *)
\* A body the schema rejects.
InvalidBody ==
  [valid |-> FALSE, hotelId |-> "h1", roomId |-> "r0", checkIn |-> 0,
   checkOut |-> 0]

\* The hotel a client names when it books room r: the room's own hotel.
HotelOfRoom(r) == IF r \in DOMAIN rooms THEN rooms[r].hotelId ELSE "h1"

\* Well-formed bodies for the rooms `roomIds` and the stays `stays`
\* (pairs of ticks), and the body the schema rejects.
CreateBodies(roomIds, stays) ==
  {[valid |-> TRUE, hotelId |-> HotelOfRoom(r), roomId |-> r,
    checkIn |-> st[1], checkOut |-> st[2]] :
     r \in roomIds, st \in stays} \cup {InvalidBody}

InFlight == Cardinality({c \in Clients : req[c].pc # "idle"})

Init ==
  \* The managers relation is filled outside these routes; no route reads it.
  /\ hotels = [h \in HotelIds |->
                 IF h = "h1" THEN [ownerId |-> "u1", managers |-> {"u2"}]
                             ELSE [ownerId |-> "u2", managers |-> {}]]
  /\ rooms = [r \in {"r1", "r2"} |->
                IF r = "r1"
                  THEN [hotelId |-> "h1", price |-> 100, status |-> "AVAILABLE",
             type |-> "STANDARD"]
                  ELSE [hotelId |-> "h2", price |-> 200, status |-> "AVAILABLE",
             type |-> "STANDARD"]]
  /\ bookings = << >>
  /\ req = [c \in Clients |-> Idle]
  /\ resp = NoResp
  /\ objects = << >>
  /\ sealed = NoSealed
  /\ call = NoCall
  /\ ret = NoRet

\* The requests of the clients `who`: bookings of `roomIds` for `stays`,
\* status updates to `statuses`, at most `limit` requests in flight.
NextOver(who, roomIds, stays, statuses, limit) ==
  \/ \E c \in Clients : RequireAuthReject(c) /\ UNCHANGED vault
  \/ \E c \in who, body \in CreateBodies(roomIds, stays) :
       InFlight < limit /\ CreateBookingFindFirst(c, body) /\ UNCHANGED vault
  \/ \E c \in who : CreateBookingFindRoom(c) /\ UNCHANGED vault
  \/ \E c \in who : CreateBookingCreate(c) /\ UNCHANGED vault
  \/ \E c \in who, id \in 1..(MaxBookings + 1), status \in statuses :
       InFlight < limit /\ UpdateStatusFind(c, id, status) /\ UNCHANGED vault
  \/ \E c \in who : UpdateStatusWrite(c) /\ UNCHANGED vault
  \/ \E c \in who : StoreFailure(c) /\ UNCHANGED vault

\* Requests of different clients overlap in time; every client books any
\* room for a stay of positive length and asks for any status.
RaceStays == {st \in RaceTicks \X RaceTicks : st[1] < st[2]}
Next == NextOver(Users, RoomIds, RaceStays, StatusInputs, Cardinality(Users))
Spec == Init /\ [][Next]_vars

\* Requests are served one at a time: stays of any length and order of
\* instants in room r1 (or the missing room), statuses up to check-in.
StayStatuses == {"CONFIRMED", "CHECKED_IN", "CANCELLED"}
NextStays ==
  NextOver(Users, {"r1", "r0"}, Ticks \X Ticks, StayStatuses, 1)
SpecStays == Init /\ [][NextStays]_vars

\* The booking routes, one request at a time, and runs of the seed script.
SeedStatuses == {"CONFIRMED", "CANCELLED"}
NextSeed ==
  \/ NextOver(Users, {"r1", "r2"}, RaceStays, SeedStatuses, 1)
  \/ Seed
SpecSeed == Init /\ [][NextSeed]_vars

\* The hotel and room routes beside the booking routes, one request at a
\* time: rooms for existing and missing hotels, room updates of price, type
\* or both.
RoomBodies ==
  {[valid |-> TRUE, hotelId |-> h, price |-> 150, type |-> "DELUXE"] :
     h \in HotelIds \cup FreshHotelIds}
    \cup {[valid |-> FALSE, hotelId |-> "h1", price |-> 0, type |-> ""]}

RoomUpdates ==
  {[valid |-> TRUE, price |-> 150, type |-> ""],
   [valid |-> TRUE, price |-> 0, type |-> "SUITE"],
   [valid |-> TRUE, price |-> 150, type |-> "SUITE"],
   [valid |-> FALSE, price |-> 0, type |-> ""]}

NextRooms ==
  \/ NextOver(Users, {"r1"}, RaceStays, {"CONFIRMED"}, 1)
  \/ \E c \in Users, valid \in BOOLEAN, stored \in BOOLEAN :
       InFlight < 1 /\ CreateHotel(c, valid, stored) /\ UNCHANGED vault
  \/ \E c \in Users, body \in RoomBodies, stored \in BOOLEAN :
       InFlight < 1 /\ CreateRoom(c, body, stored) /\ UNCHANGED vault
  \/ \E c \in Users, id \in RoomIds \cup FreshRoomIds, data \in RoomUpdates :
       InFlight < 1 /\ UpdateRoomFind(c, id, data) /\ UNCHANGED vault
  \/ \E c \in Users, stored \in BOOLEAN :
       UpdateRoomWrite(c, stored) /\ UNCHANGED vault
SpecRooms == Init /\ [][NextRooms]_vars

\* The booking routes, one request at a time, over rooms whose status
\* column holds any value of the enum (no route writes another value than
\* AVAILABLE; the column is maintained outside these routes).
RoomStatus == {"AVAILABLE", "OCCUPIED", "MAINTENANCE", "RESERVED"}

InitRoomStatus ==
  /\ hotels = [h \in HotelIds |->
                 IF h = "h1" THEN [ownerId |-> "u1", managers |-> {"u2"}]
                             ELSE [ownerId |-> "u2", managers |-> {}]]
  /\ \E st \in [{"r1", "r2"} -> RoomStatus] :
       rooms = [r \in {"r1", "r2"} |->
                  [hotelId |-> IF r = "r1" THEN "h1" ELSE "h2",
                   price |-> IF r = "r1" THEN 100 ELSE 200,
                   status |-> st[r], type |-> "STANDARD"]]
  /\ bookings = << >>
  /\ req = [c \in Clients |-> Idle]
  /\ resp = NoResp
  /\ objects = << >>
  /\ sealed = NoSealed
  /\ call = NoCall
  /\ ret = NoRet

NextRoomStatus ==
  NextOver(Users, {"r1", "r2"}, RaceStays, {"CONFIRMED", "CANCELLED"}, 1)
SpecRoomStatus == InitRoomStatus /\ [][NextRoomStatus]_vars

\* The booking routes, one request at a time, with bodies that name any
\* hotel beside any room.
FreeBodies ==
  {[valid |-> TRUE, hotelId |-> h, roomId |-> r, checkIn |-> 0,
    checkOut |-> 1] : h \in HotelIds, r \in {"r1", "r2"}}

NextHotelRef ==
  \/ \E c \in Users, body \in FreeBodies :
       InFlight < 1 /\ CreateBookingFindFirst(c, body) /\ UNCHANGED vault
  \/ NextOver(Users, {"r1"}, RaceStays, {"CONFIRMED"}, 1)
SpecHotelRef == Init /\ [][NextHotelRef]_vars

\* Two connections of the owner of hotel h1 have requests in flight at the
\* same time: bookings of room r1, and status updates that confirm or cancel.
RaceStatuses == {"CONFIRMED", "CANCELLED"}
NextOwnerRace ==
  NextOver({"u1", Second}, {"r1"}, RaceStays, RaceStatuses, 2)
SpecOwnerRace == Init /\ [][NextOwnerRace]_vars

\* Calls of encrypt, and of decrypt on what encrypt returned or on a
\* changed copy of it, with the password encrypt returned or another one.
Altered(buf) ==
  {[buf EXCEPT ![p] = x] : p \in 1..Len(buf), x \in SampleBytes}
    \cup {Subarray(buf, 0, Len(buf) - 1)}
    \cup {Append(buf, x) : x \in SampleBytes}

NextCipher ==
  \/ \E data \in Payloads, salt \in RandomBytes(saltLength),
        iv \in RandomBytes(ivLength), password \in Passwords :
       EncryptCall(data, salt, iv, password)
  \/ \E encryptedData \in Altered(sealed.encryptedData), password \in Passwords :
       DecryptCall(encryptedData, password)
SpecCipher == Init /\ [][NextCipher]_vars

\* Calls of the storage service and of the upload middleware with files of
\* allowed and other types, up to, at and above the size limit.
MimeTypes == {"application/pdf", "image/png", "text/html"}
Sizes == {MaxDataLen, MAX_FILE_SIZE, MAX_FILE_SIZE + 1}
\* A file's content is empty or a byte long; its declared size is a field of
\* its own.
Files == [mimetype : MimeTypes, size : Sizes, buffer : BuffersUpTo(1)]

NextVault ==
  \/ \E file \in Files : UploadSingle(file)
  \/ \E file \in Files, sent \in BOOLEAN : UploadFile(file, sent)
  \/ \E key \in 1..(MaxObjects + 1) : GetSignedUrl(key)
  \/ \E key \in 1..(MaxObjects + 1) : DeleteFile(key)
SpecVault == Init /\ [][NextVault]_vars

(* ------------------------------------------------------------- claims *)
\* The vocabulary of the specification, in which the claims are stated.
\* Statuses in which a booking holds its room.
Live == {"PENDING", "CONFIRMED", "CHECKED_IN"}

\* The overlap predicate on half-open intervals [checkIn, checkOut).
Overlap(aIn, aOut, bIn, bOut) == aIn < bOut /\ bIn < aOut

Proper(b) == b.checkIn < b.checkOut

AllRowsProper == \A i \in 1..Len(bookings) : Proper(bookings[i])

StayBodies == CreateBodies({"r1", "r0"}, Ticks \X Ticks)

ConflictReply == Reply(400, ErrNotAvailable)

\* C1: no room ever has two distinct bookings, both in PENDING, CONFIRMED or
\* CHECKED_IN, whose intervals overlap (a.checkIn < b.checkOut and
\* b.checkIn < a.checkOut).  Stated for stays of positive length, so that a
\* violation does not rest on a degenerate stay.
C1_NoDoubleBook ==
  \A i, j \in 1..Len(bookings) :
    (/\ i # j
     /\ bookings[i].roomId = bookings[j].roomId
     /\ bookings[i].status \in Live
     /\ bookings[j].status \in Live
     /\ Proper(bookings[i])
     /\ Proper(bookings[j]))
    => ~Overlap(bookings[i].checkIn, bookings[i].checkOut,
                bookings[j].checkIn, bookings[j].checkOut)

\* C2: of creation requests for one room with overlapping stays that run
\* concurrently, only one succeeds: a request is never answered 201 when a
\* live booking of its room that overlaps its stay was committed after its
\* own availability read.
C2_ConcurrentCreatesOneWins ==
  [][\A c \in Users :
       CreateBookingCreate(c) =>
         ~\E i \in (req[c].snapshot + 1)..Len(bookings) :
             /\ bookings[i].roomId = req[c].roomId
             /\ bookings[i].status \in Live
             /\ Overlap(bookings[i].checkIn, bookings[i].checkOut,
                        req[c].checkIn, req[c].checkOut)]_vars

\* C3: a creation request is answered with the conflict error whenever its
\* room has a PENDING or CONFIRMED booking whose interval overlaps the
\* requested one, whatever the relative position of the two intervals.
C3_NoMissedConflict ==
  [][\A c \in Users, body \in StayBodies :
       (/\ CreateBookingFindFirst(c, body)
        /\ body.valid
        /\ body.checkIn < body.checkOut
        /\ \E i \in 1..Len(bookings) :
              /\ bookings[i].roomId = body.roomId
              /\ bookings[i].status \in {"PENDING", "CONFIRMED"}
              /\ Proper(bookings[i])
              /\ Overlap(bookings[i].checkIn, bookings[i].checkOut,
                         DateOf(body.checkIn), DateOf(body.checkOut)))
       => resp' = ConflictReply]_vars

\* C4: a creation request for an existing room with checkIn < checkOut that
\* overlaps no live booking of the room is not answered with the conflict
\* error; back-to-back stays are accepted.
C4_NoFalseConflict ==
  [][\A c \in Users, body \in StayBodies :
       (/\ CreateBookingFindFirst(c, body)
        /\ body.valid
        /\ body.roomId \in DOMAIN rooms
        /\ body.checkIn < body.checkOut
        /\ AllRowsProper
        /\ \A i \in 1..Len(bookings) :
              (bookings[i].roomId = body.roomId /\ bookings[i].status \in Live)
              => ~Overlap(bookings[i].checkIn, bookings[i].checkOut,
                          DateOf(body.checkIn), DateOf(body.checkOut)))
       => resp' # ConflictReply]_vars

\* C5: a CHECKED_IN booking blocks a request exactly as a PENDING one does:
\* a request that overlaps a CHECKED_IN booking of its room, and that would
\* be refused were that booking PENDING, is answered with the conflict error.
C5_CheckedInBlocks ==
  [][\A c \in Users, body \in StayBodies :
       (/\ CreateBookingFindFirst(c, body)
        /\ body.valid
        /\ body.checkIn < body.checkOut
        /\ \E i \in 1..Len(bookings) :
              /\ bookings[i].roomId = body.roomId
              /\ bookings[i].status = "CHECKED_IN"
              /\ Proper(bookings[i])
              /\ Overlap(bookings[i].checkIn, bookings[i].checkOut,
                         DateOf(body.checkIn), DateOf(body.checkOut))
              /\ ExistingBookingWhere([bookings[i] EXCEPT !.status = "PENDING"],
                                      body.roomId, DateOf(body.checkIn),
                                      DateOf(body.checkOut)))
       => resp' = ConflictReply]_vars

\* C6: a step that answers a creation request with an error (conflict, room
\* not found, invalid body or store failure) leaves the booking table
\* exactly as it was.
C6_ErrorWritesNothing ==
  [][resp'.error \in {ErrNotAvailable, ErrRoomNotFound, ErrCreateFailed}
       => bookings' = bookings]_vars

\* C6 witness: a creation request has just failed on a table that holds a row.
C6_Witness ==
  /\ resp = Reply(400, ErrCreateFailed)
  /\ Len(bookings) = 1

\* C7: a step that answers 201 adds exactly one row, for the room, user and
\* interval of the request it answers, in status PENDING with payment
\* status PENDING, and changes no other row, no room and no hotel.
C7_CreateAddsOneRow ==
  [][resp'.code = 201 =>
       /\ Len(bookings') = Len(bookings) + 1
       /\ SubSeq(bookings', 1, Len(bookings)) = bookings
       /\ rooms' = rooms
       /\ hotels' = hotels
       /\ \E c \in Users :
            /\ req[c].pc = "create"
            /\ req'[c].pc = "idle"
            /\ LET row == bookings'[Len(bookings')]
               IN /\ row.roomId = req[c].roomId
                  /\ row.userId = c
                  /\ row.checkIn = req[c].checkIn
                  /\ row.checkOut = req[c].checkOut
                  /\ row.status = "PENDING"
                  /\ row.paymentStatus = "PENDING"]_vars

\* C7 witness: a second booking has just been created, by another user than
\* the first.
C7_Witness ==
  /\ resp.code = 201
  /\ Len(bookings) = 2
  /\ bookings[1].userId # bookings[2].userId

\* C8: the totalAmount of every stored booking with checkIn < checkOut is
\* n times the room's nightly rate, n being the number of whole nights that
\* covers the stay: (n - 1) days < checkOut - checkIn <= n days.
C8_PricingLaw ==
  \A i \in 1..Len(bookings) :
    LET b == bookings[i]
        d == b.checkOut - b.checkIn
    IN d > 0 =>
         \E n \in 1..(MaxTick + 1) :
           /\ (n - 1) * 86400000 < d
           /\ d <= n * 86400000
           /\ b.totalAmount = n * rooms[b.roomId].price

\* C8 witness: a stored stay of a day and a half, charged two nights.
C8_Witness ==
  \E i \in 1..Len(bookings) :
    /\ bookings[i].checkOut - bookings[i].checkIn = 129600000
    /\ bookings[i].totalAmount = 200

\* C9: every stored booking has checkIn strictly before checkOut and a
\* positive totalAmount.
C9_StoredStaysArePositive ==
  \A i \in 1..Len(bookings) :
    /\ bookings[i].checkIn < bookings[i].checkOut
    /\ bookings[i].totalAmount > 0

\* The transition table of the booking state machine.
Transitions ==
  {<<"PENDING", "CONFIRMED">>, <<"PENDING", "REJECTED">>,
   <<"PENDING", "CANCELLED">>, <<"CONFIRMED", "CHECKED_IN">>,
   <<"CONFIRMED", "CANCELLED">>, <<"CHECKED_IN", "CHECKED_OUT">>}

\* C10: every change of a booking's status goes along the transition
\* table: a request for a status that is no successor of the current one
\* leaves the status as it was.
C10_StatusFollowsTable ==
  [][\A i \in 1..Len(bookings) :
       bookings'[i].status # bookings[i].status
       => <<bookings[i].status, bookings'[i].status>> \in Transitions]_vars

\* Statuses from which the table allows no transition.
Terminal == {"CANCELLED", "REJECTED", "CHECKED_OUT"}

\* C11: terminal statuses are absorbing: a booking that is CANCELLED,
\* REJECTED or CHECKED_OUT keeps that status in every later step.
C11_TerminalIsAbsorbing ==
  [][\A i \in 1..Len(bookings) :
       bookings[i].status \in Terminal
       => bookings'[i].status = bookings[i].status]_vars

UpdateIds == 1..(MaxBookings + 1)

IsOwner(c, id) == hotels[bookings[id].hotelId].ownerId = c

IsManager(c, id) == c \in hotels[bookings[id].hotelId].managers

\* C12: a status update by a session user who is neither the owner nor a
\* manager of the booking's hotel is answered with the authorization error
\* and goes no further: no booking changes and no write is pending, for
\* every current and every requested status.
C12_StrangerIsRefused ==
  [][\A c \in Users, id \in UpdateIds, status \in StatusInputs :
       (/\ UpdateStatusFind(c, id, status)
        /\ id \in 1..Len(bookings)
        /\ ~IsOwner(c, id)
        /\ ~IsManager(c, id))
       => /\ resp' = Reply(403, ErrNotAuthorized)
          /\ bookings' = bookings
          /\ req' = req]_vars

\* C12 witness: u1, who neither owns nor manages hotel h2, has just been
\* refused on a booking of h2.
C12_Witness ==
  /\ resp = Reply(403, ErrNotAuthorized)
  /\ Len(bookings) = 1
  /\ bookings[1].hotelId = "h2"

\* C13: a status update by a manager of the booking's hotel who is not its
\* owner, for a transition of the table, is not refused: it proceeds to the
\* write as the owner's does.
C13_ManagerActsAsOwner ==
  [][\A c \in Users, id \in UpdateIds, status \in BookingStatus :
       (/\ UpdateStatusFind(c, id, status)
        /\ id \in 1..Len(bookings)
        /\ IsManager(c, id)
        /\ ~IsOwner(c, id)
        /\ <<bookings[id].status, status>> \in Transitions)
       => /\ resp' # Reply(403, ErrNotAuthorized)
          /\ req'[c].pc = "update"]_vars

\* C14: a status update for an id that names no booking is answered with
\* the not-found error, whoever the session user is, and changes no booking
\* and leaves no write pending.
C14_MissingBookingIsNotFound ==
  [][\A c \in Users, id \in UpdateIds, status \in StatusInputs :
       (UpdateStatusFind(c, id, status) /\ id \notin 1..Len(bookings))
       => /\ resp' = Reply(404, ErrBookingNotFound)
          /\ bookings' = bookings
          /\ req' = req]_vars

\* C14 witness: a status update has just been answered not-found on a table
\* that holds bookings.
C14_Witness ==
  /\ resp = Reply(404, ErrBookingNotFound)
  /\ Len(bookings) = 2

\* C15: a step that answers a status update with 200 changes the status of
\* the addressed booking to the requested one and nothing else: its
\* paymentStatus, totalAmount, checkIn, checkOut, room, hotel and user, every
\* other booking, every room and every hotel stay as they were.
C15_UpdateChangesStatusOnly ==
  [][resp'.code = 200 =>
       /\ rooms' = rooms
       /\ hotels' = hotels
       /\ \E c \in Users :
            /\ req[c].pc = "update"
            /\ req'[c].pc = "idle"
            /\ bookings' =
                 [i \in 1..Len(bookings) |->
                    IF i = req[c].id
                      THEN [bookings[i] EXCEPT !.status = req[c].status]
                      ELSE bookings[i]]]_vars

\* C15 witness: a booking has just been confirmed on a table of two rows,
\* the other of which is still pending.
C15_Witness ==
  /\ resp.code = 200
  /\ Len(bookings) = 2
  /\ \E i, j \in 1..2 :
       bookings[i].status = "CONFIRMED" /\ bookings[j].status = "PENDING"

\* A booking row is the same booking as before: the fields that identify it
\* and its stay are as they were.
SameBooking(a, b) ==
  /\ a.roomId = b.roomId
  /\ a.hotelId = b.hotelId
  /\ a.userId = b.userId
  /\ a.checkIn = b.checkIn
  /\ a.checkOut = b.checkOut

RowsKept ==
  /\ Len(bookings') >= Len(bookings)
  /\ \A i \in 1..Len(bookings) : SameBooking(bookings'[i], bookings[i])

\* C16 as stated: bookings are never deleted: whatever operation of the
\* repository runs, every booking that exists before the step exists after.
C16_NeverDeleted == [][RowsKept]_vars

\* C16: no request the booking routes serve deletes a booking: every step
\* other than a run of the development seed script keeps every booking that
\* exists, with its room, hotel, user and stay.
C16_RoutesNeverDelete == [][RowsKept \/ Seed]_vars

\* C16 witness: two bookings exist, one of them has just been cancelled, and
\* it is still a row of the table.
C16_Witness ==
  /\ resp.code = 200
  /\ Len(bookings) = 2
  /\ \E i \in 1..2 : bookings[i].status = "CANCELLED"

\* The results of encrypt for the documents, salts, ivs and passwords of the
\* explored runs.
Sealings ==
  {Encrypt(data, salt, iv, password).encryptedData :
     data \in Payloads, salt \in RandomBytes(saltLength),
     iv \in RandomBytes(ivLength), password \in Passwords}

\* C17: the object store never holds plaintext: the body of every object in
\* the bucket is a result of EncryptionService.encrypt, not the bytes of
\* the uploaded file.
C17_StoreHoldsCiphertextOnly ==
  \A k \in DOMAIN objects : objects[k].Body \in Sealings

\* C18: decrypt(encrypt(P).encryptedData, encrypt(P).encryptionKey) = P for
\* every document P, the empty one included; encryptedData is
\* salt (64 bytes) || iv (16) || tag (16) || ciphertext (as long as P), and
\* decrypt reads it at these offsets.
C18_RoundTrip ==
  /\ sealed # NoSealed
       => /\ Len(sealed.encryptedData) = 64 + 16 + 16 + Len(sealed.data)
          /\ SubSeq(sealed.encryptedData, 1, 64) = sealed.salt
          /\ SubSeq(sealed.encryptedData, 65, 80) = sealed.iv
  /\ (/\ call.op = "decrypt"
      /\ call.part = "none"
      /\ call.password = sealed.encryptionKey)
       => ret = Returns("decrypt", sealed.data, 0)

\* C18 witness: the empty document has just come back from decrypt.
C18_Witness ==
  /\ call.op = "decrypt"
  /\ ret = Returns("decrypt", << >>, 0)
  /\ sealed.data = << >>
  /\ Len(sealed.encryptedData) = 96

\* C19: decrypt of a payload that differs from what encrypt returned in any
\* part (salt, iv, tag or ciphertext), or with another password than the
\* one encrypt returned, throws and returns no plaintext.
C19_TamperIsDetected ==
  (/\ call.op = "decrypt"
   /\ \/ call.part # "none"
      \/ call.password # sealed.encryptionKey)
  => /\ ~ret.ok
     /\ ret.data = << >>

\* C19 witness: decrypt has just refused, for its tag, a payload with a
\* changed byte in the salt, given the right password; the document is not
\* empty.
C19_Witness ==
  /\ call.op = "decrypt"
  /\ call.part = "salt"
  /\ call.password = sealed.encryptionKey
  /\ ret = Throws("decrypt", ErrUnauthentic)
  /\ sealed.data # << >>

\* C20: an upload whose mime type is none of image/jpeg, image/png,
\* image/jpg, application/pdf, or whose size exceeds 5 MB, throws and sends
\* nothing to the object store.
C20_InvalidFileStoresNothing ==
  [][(/\ call'.op = "uploadFile"
      /\ \/ call'.mimetype \notin
              {"image/jpeg", "image/png", "image/jpg", "application/pdf"}
         \/ call'.size > 5242880)
     => /\ ~ret'.ok
        /\ ret'.error \in {ErrInvalidFileType, ErrFileSize}
        /\ objects' = objects]_vars

\* C20 witness: an upload of an allowed type has just been refused for its
\* size by a bucket that holds an object.
C20_Witness ==
  /\ call.op = "uploadFile"
  /\ call.mimetype = "application/pdf"
  /\ ret = Throws("uploadFile", ErrFileSize)
  /\ DOMAIN objects # {}

\* The user an AadharCard row names for the document stored under an object
\* key (AadharCard.userId, AadharCard.documentPath), and the users whose role
\* is ADMIN.
DocumentOwner(key) == IF key = 1 THEN "u1" ELSE "u2"
Admins == {}

\* C21: a time-limited access reference to a stored document is granted only
\* to the document's owner or an administrator: a getSignedUrl call made for
\* any other requester throws and returns nothing.
C21_OnlyOwnerGetsUrl ==
  [][\A requester \in Users, key \in DOMAIN objects :
       (/\ GetSignedUrl(key)
        /\ requester # DocumentOwner(key)
        /\ requester \notin Admins)
       => ~ret'.ok]_vars

\* C28: of two status updates of one booking that have both read it before
\* either writes, each asking for a successor of the status it read, the
\* writes never take the booking off the transition table: a write changes
\* the status only along a transition from the status the booking then has.
C28_ConcurrentUpdatesStayOnTable ==
  [][\A c \in Clients :
       (/\ req[c].pc = "update"
        /\ req'[c].pc = "idle"
        /\ resp'.code = 200
        /\ <<req[c].read, req[c].status>> \in Transitions)
       => LET id == req[c].id
          IN bookings'[id].status # bookings[id].status
             => <<bookings[id].status, bookings'[id].status>> \in Transitions]_vars

\* C22: only the owner of a hotel creates a room in it or changes a room's
\* price or type: a room-creation or room-update request of a session user
\* who does not own the room's hotel creates no room and changes no room.
C22_OnlyOwnerWritesRooms ==
  [][/\ \A c \in Users, body \in RoomBodies, stored \in BOOLEAN :
          (/\ CreateRoom(c, body, stored)
           /\ body.hotelId \in DOMAIN hotels
           /\ hotels[body.hotelId].ownerId # c)
          => rooms' = rooms
     /\ \A c \in Users :
          (/\ req[c].pc = "updateRoom"
           /\ hotels[rooms[req[c].roomId].hotelId].ownerId # c)
          => rooms' = rooms]_vars

\* C23: a request without a session user changes no stored record: the
\* step that answers it 401 leaves hotels, rooms and bookings as they were,
\* and no request of such a client is ever inside a handler.
C23_NoSessionNoChange ==
  [][/\ resp'.code = 401
          => /\ hotels' = hotels
             /\ rooms' = rooms
             /\ bookings' = bookings
     /\ \A c \in Clients :
          UserOf(c) \notin Users => req'[c].pc = "idle"]_vars

\* C23 witness: a request without a session has just been answered 401 by
\* a store that holds a created hotel, a created room and a booking.
C23_Witness ==
  /\ resp = Reply(401, ErrUnauthorized)
  /\ "h3" \in DOMAIN hotels
  /\ "r3" \in DOMAIN rooms
  /\ Len(bookings) >= 1

\* A live booking of client c's room that overlaps its stay was committed
\* after c's availability read.
ConflictingSince(c) ==
  \E i \in (req[c].snapshot + 1)..Len(bookings) :
    /\ bookings[i].roomId = req[c].roomId
    /\ bookings[i].status \in Live
    /\ Overlap(bookings[i].checkIn, bookings[i].checkOut,
               req[c].checkIn, req[c].checkOut)

OfRoom(rows, roomId) == SelectSeq(rows, LAMBDA b : b.roomId = roomId)

RaceBodies == CreateBodies(RoomIds, RaceStays)

\* C25: bookings of one room never affect another room: a creation request
\* for room r is answered with the conflict error exactly when it is with
\* the bookings of all other rooms taken away, never when r has no booking,
\* and a request that has passed its availability read is never refused
\* for what happens to other rooms meanwhile.
C25_RoomsAreIndependent ==
  [][/\ \A c \in Users, body \in RaceBodies :
          (CreateBookingFindFirst(c, body) /\ body.valid)
          => /\ (resp' = ConflictReply)
                  <=> FindFirstExisting(OfRoom(bookings, body.roomId),
                                        body.roomId, DateOf(body.checkIn),
                                        DateOf(body.checkOut))
             /\ (\A i \in 1..Len(bookings) : bookings[i].roomId # body.roomId)
                  => resp' # ConflictReply
     /\ \A c \in Users : CreateBookingCreate(c) => resp'.code = 201]_vars

\* C25 witness: two bookings of different rooms for the same stay, the
\* second just accepted.
C25_Witness ==
  /\ resp.code = 201
  /\ Len(bookings) = 2
  /\ bookings[1].roomId # bookings[2].roomId
  /\ bookings[1].checkIn = bookings[2].checkIn
  /\ bookings[1].checkOut = bookings[2].checkOut
  /\ bookings[1].status \in Live

\* C26: a room's status has no influence on booking creation and is not
\* changed by it: whatever the status, the lookup of an existing room lets
\* the request go on to the insert with the room's price, a conflict error
\* is caused by a booking of the room, and no step of the booking routes
\* changes any room's status.
C26_RoomStatusIsInert ==
  [][/\ \A r \in DOMAIN rooms : rooms'[r].status = rooms[r].status
     /\ \A c \in Users :
          (CreateBookingFindRoom(c) /\ req[c].roomId \in DOMAIN rooms)
          => /\ req'[c].pc = "create"
             /\ resp' = NoResp
             /\ req'[c].totalAmount = rooms[req[c].roomId].price
     /\ resp' = ConflictReply
          => \E i \in 1..Len(bookings) :
               bookings[i].status \in {"PENDING", "CONFIRMED"}]_vars

\* C26 witness: a booking of a room under MAINTENANCE has just been
\* accepted.
C26_Witness ==
  /\ resp.code = 201
  /\ Len(bookings) >= 1
  /\ rooms[bookings[Len(bookings)].roomId].status = "MAINTENANCE"

\* C27: every stored booking's hotel is the hotel of its room.
C27_HotelIsRoomsHotel ==
  \A i \in 1..Len(bookings) :
    bookings[i].hotelId = rooms[bookings[i].roomId].hotelId

\* C29: an interval is released when its booking ends: a creation request
\* for an existing room with checkIn < checkOut that overlaps a CANCELLED,
\* REJECTED or CHECKED_OUT booking of the room, and no live booking of it,
\* is not answered with the conflict error, and the ended booking stays
\* stored.
C29_EndedBookingReleases ==
  [][\A c \in Users, body \in StayBodies :
       (/\ CreateBookingFindFirst(c, body)
        /\ body.valid
        /\ body.roomId \in DOMAIN rooms
        /\ body.checkIn < body.checkOut
        /\ AllRowsProper
        /\ \E i \in 1..Len(bookings) :
              /\ bookings[i].roomId = body.roomId
              /\ bookings[i].status \in Terminal
              /\ Overlap(bookings[i].checkIn, bookings[i].checkOut,
                         DateOf(body.checkIn), DateOf(body.checkOut))
        /\ \A i \in 1..Len(bookings) :
              (bookings[i].roomId = body.roomId /\ bookings[i].status \in Live)
              => ~Overlap(bookings[i].checkIn, bookings[i].checkOut,
                          DateOf(body.checkIn), DateOf(body.checkOut)))
       => /\ resp' # ConflictReply
          /\ bookings' = bookings]_vars

====
